---- MODULE Spec2Model ----
(***************************************************************************)
(* Model of the two pipeline drivers of imprinting/:                       *)
(*   1_run_batch_alignment.py  (stage 1: minimap2 over a directory)        *)
(*   2_paf_liftover.py         (stage 2: paf2liftover.py + filter,         *)
(*                              liftOver, hg38 BED construction)           *)
(* Text (file names, lines, table cells) is a sequence of one-character    *)
(* strings, so that suffix tests, strip, split and replace are computed    *)
(* the way the Python code computes them.                                  *)
(***************************************************************************)
EXTENDS Integers, Sequences, FiniteSets, TLC

VARIABLES
    prog,        \* which program / function is running
    pc,          \* position in that program
    input_dir,   \* stage 1: [exists, names] of input_dir
    paf_dir,     \* stage 2: [exists, names] of paf_dir
    i,           \* position of the for loop in the directory listing
    calls,       \* stage 1: run_minimap2 invocations, in order
    out_files,   \* stage 1: output_paf path -> query file that produced it
    tsv,         \* stage 2: the loci table, [exists, header, rows]
    hg38_bed,    \* stage 2: [exists, lines, created] of hg38_imprinted_loci.bed
    chain,       \* stage 2: assembly name -> [exists, lines] of <asm>_to_hg38.chain
    unmapped,    \* stage 2: assembly name -> "absent" | "empty" | "nonempty"
    events,      \* stage 2: converter / liftOver steps, in order
    infile,      \* filter: lines of chain_file + ".tmp"
    outfile,     \* filter: lines written to chain_file
    refiltered   \* filter: lines written when the chain file is filtered again

vars == <<prog, pc, input_dir, paf_dir, i, calls, out_files, tsv, hg38_bed,
          chain, unmapped, events, infile, outfile, refiltered>>

(***************************************************************************)
(* Bounds                                                                  *)
(***************************************************************************)
MaxFiles == 3      \* entries in the listing of input_dir
MaxPafFiles == 2   \* entries in the listing of paf_dir
MaxLines == 2      \* lines of a converter output file
MaxRows == 2       \* rows of the loci table

(***************************************************************************)
(* Text                                                                    *)
(***************************************************************************)
TAB == "\t"
NL == "\n"
Whitespace == {" ", TAB, NL}

\* str.endswith
EndsWith(s, suf) ==
    /\ Len(s) >= Len(suf)
    /\ SubSeq(s, Len(s) - Len(suf) + 1, Len(s)) = suf

\* str.startswith
StartsWith(s, p) ==
    /\ Len(s) >= Len(p)
    /\ SubSeq(s, 1, Len(p)) = p

RECURSIVE LStrip(_)
LStrip(s) ==
    IF s = <<>> THEN s
    ELSE IF Head(s) \in Whitespace THEN LStrip(Tail(s)) ELSE s

RECURSIVE RStrip(_)
RStrip(s) ==
    IF s = <<>> THEN s
    ELSE IF s[Len(s)] \in Whitespace THEN RStrip(SubSeq(s, 1, Len(s) - 1)) ELSE s

\* str.strip()
Strip(s) == RStrip(LStrip(s))

\* str.split(sep) for a one-character separator: the list of fields
RECURSIVE SplitFrom(_, _, _)
SplitFrom(s, sep, cur) ==
    IF s = <<>> THEN <<cur>>
    ELSE IF Head(s) = sep THEN <<cur>> \o SplitFrom(Tail(s), sep, <<>>)
    ELSE SplitFrom(Tail(s), sep, Append(cur, Head(s)))

Split(s, sep) == SplitFrom(s, sep, <<>>)

\* str.replace(old, new): non-overlapping occurrences, left to right
RECURSIVE Replace(_, _, _)
Replace(s, old, new) ==
    IF s = <<>> THEN s
    ELSE IF StartsWith(s, old)
         THEN new \o Replace(SubSeq(s, Len(old) + 1, Len(s)), old, new)
         ELSE <<Head(s)>> \o Replace(Tail(s), old, new)

\* str.rfind of one character: 0 when absent (positions are 1-based here)
RECURSIVE RFind(_, _)
RFind(s, c) ==
    IF s = <<>> THEN 0
    ELSE IF s[Len(s)] = c THEN Len(s) ELSE RFind(SubSeq(s, 1, Len(s) - 1), c)

\* os.path.splitext(name)[0] for a name without directory separator: cut at
\* the last dot unless only dots precede it
splitext_root(name) ==
    LET dot == RFind(name, ".") IN
    IF dot > 0 /\ \E k \in 1..(dot - 1) : name[k] # "."
    THEN SubSeq(name, 1, dot - 1)
    ELSE name

Range(s) == {s[k] : k \in DOMAIN s}

\* os.listdir: the names of a directory, each once, in any order
RECURSIVE Listings(_, _)
Listings(S, n) ==
    IF n = 0 THEN {<<>>}
    ELSE LET shorter == Listings(S, n - 1) IN
         shorter \cup UNION {{Append(l, x) : x \in S \ Range(l)} :
                               l \in {m \in shorter : Len(m) = n - 1}}

(***************************************************************************)
(* Values of the variables a program does not use                          *)
(***************************************************************************)
NoDir == [exists |-> FALSE, names |-> <<>>]
NoTable == [exists |-> FALSE, header |-> <<>>, rows |-> <<>>]
NoFile == [exists |-> FALSE, lines |-> <<>>]
NoBed == [exists |-> FALSE, lines |-> <<>>, created |-> 0]

(***************************************************************************)
(* What subprocess.run(command, check=True) raises, by what the external   *)
(* program did: it ran and exited 0, it ran and exited non-zero, or the    *)
(* binary is not on the PATH.                                              *)
(***************************************************************************)
ProcessOutcomes == {"ok", "nonzero", "missing"}

subprocess_run(outcome) ==
    CASE outcome = "ok" -> "none"
      [] outcome = "nonzero" -> "CalledProcessError"
      [] outcome = "missing" -> "FileNotFoundError"

\* An exception leaves a try block when none of its except clauses names it
Propagates(exc, caught) == exc # "none" /\ exc \notin caught

(***************************************************************************)
(* Stage 1: 1_run_batch_alignment.py                                       *)
(***************************************************************************)
FastaDirNames ==
    { <<"a", ".", "f", "a">>,
      <<"a", ".", "f", "a", "s", "t", "a">>,
      <<"b", ".", "f", "n", "a">>,
      <<"a", ".", "t", "x", "t">>,
      <<"b", ".", "f", "a", ".", "g", "z">>,
      <<"f", "a">> }

\* line 48: the three suffixes of a FASTA file name
IsFasta(filename) ==
    \/ EndsWith(filename, <<".", "f", "a", "s", "t", "a">>)
    \/ EndsWith(filename, <<".", "f", "a">>)
    \/ EndsWith(filename, <<".", "f", "n", "a">>)

\* lines 50-51: the output file's name inside output_dir
output_paf_path(filename) ==
    splitext_root(filename)
        \o <<"_", "v", "s", "_", "h", "g", "3", "8", ".", "p", "a", "f">>

\* lines 26-29: the except clauses of run_minimap2
run_minimap2_mutant_caught == {"CalledProcessError"}
run_minimap2_caught == {"CalledProcessError", "FileNotFoundError"}

\* lines 13-29: the exception run_minimap2 lets through, "none" when it returns
run_minimap2(outcome) ==
    IF Propagates(subprocess_run(outcome), run_minimap2_caught)
    THEN subprocess_run(outcome) ELSE "none"

\* minimap2 -o output_paf: the output file exists once the aligner succeeded,
\* replacing whatever was at that path
WritePaf(files, path, query) ==
    {f \in files : f.path # path} \cup {[path |-> path, from |-> query]}

InitAlign ==
    /\ prog = "align"
    /\ pc = "start"
    /\ input_dir \in {NoDir} \cup
           {[exists |-> TRUE, names |-> l] : l \in Listings(FastaDirNames, MaxFiles)}
    /\ i = 1
    /\ calls = <<>>
    /\ out_files = {}
    /\ paf_dir = NoDir
    /\ tsv = NoTable
    /\ hg38_bed = NoBed
    /\ chain = <<>>
    /\ unmapped = <<>>
    /\ events = <<>>
    /\ infile = <<>>
    /\ outfile = <<>>
    /\ refiltered = <<>>

AlignUnused == <<paf_dir, tsv, hg38_bed, chain, unmapped, events, infile,
                 outfile, refiltered>>

\* lines 39-45: the isdir check, makedirs
process_directories_enter ==
    /\ prog = "align" /\ pc = "start"
    /\ pc' = IF input_dir.exists THEN "loop" ELSE "returned"
    /\ UNCHANGED <<prog, input_dir, i, calls, out_files, AlignUnused>>

\* lines 47-48: a name without a FASTA suffix
process_directories_skip ==
    /\ prog = "align" /\ pc = "loop"
    /\ i <= Len(input_dir.names)
    /\ ~IsFasta(input_dir.names[i])
    /\ i' = i + 1
    /\ UNCHANGED <<prog, pc, input_dir, calls, out_files, AlignUnused>>

\* lines 47-54: a FASTA file, aligned by run_minimap2
process_directories_align ==
    /\ prog = "align" /\ pc = "loop"
    /\ i <= Len(input_dir.names)
    /\ IsFasta(input_dir.names[i])
    /\ \E outcome \in ProcessOutcomes :
          LET filename == input_dir.names[i]
              path == output_paf_path(filename)
          IN /\ calls' = Append(calls, [query |-> filename, output |-> path,
                                        outcome |-> outcome])
             /\ out_files' = IF outcome = "ok"
                             THEN WritePaf(out_files, path, filename)
                             ELSE out_files
             /\ IF run_minimap2(outcome) = "none"
                THEN i' = i + 1 /\ pc' = pc
                ELSE i' = i /\ pc' = "crashed"
    /\ UNCHANGED <<prog, input_dir, AlignUnused>>

\* line 47: the listing is exhausted
process_directories_return ==
    /\ prog = "align" /\ pc = "loop"
    /\ i > Len(input_dir.names)
    /\ pc' = "done"
    /\ UNCHANGED <<prog, input_dir, i, calls, out_files, AlignUnused>>

NextAlign ==
    \/ process_directories_enter
    \/ process_directories_skip
    \/ process_directories_align
    \/ process_directories_return

SpecAlign == InitAlign /\ [][NextAlign]_vars

\* A run has ended: after its last statement ("done"), by an early return
\* ("returned") or by an exception nothing caught ("crashed")
RunEnded == pc \in {"done", "returned", "crashed"}

\* The claim's own reading of "name ends in .fasta, .fa or .fna"
HasSequenceSuffix(name) ==
    \E suf \in { <<".", "f", "a", "s", "t", "a">>, <<".", "f", "a">>,
                 <<".", "f", "n", "a">> } :
        /\ Len(name) >= Len(suf)
        /\ \A j \in 1..Len(suf) : name[Len(name) - Len(suf) + j] = suf[j]

InvocationsOf(name) == Cardinality({k \in DOMAIN calls : calls[k].query = name})

\* C1: in stage 1, whatever the aligner outcomes, every listed file with a
\* .fasta/.fa/.fna suffix gets exactly one run_minimap2 invocation and every
\* other file none: during the loop for the files already passed, and for the
\* whole listing once the run has ended (no failure ends the run early).
C1_OneInvocationPerSequenceFile ==
    (prog = "align" /\ input_dir.exists) =>
        \A k \in DOMAIN input_dir.names :
            (k < i \/ RunEnded) =>
                InvocationsOf(input_dir.names[k]) =
                    IF HasSequenceSuffix(input_dir.names[k]) THEN 1 ELSE 0

\* C1 witness: a finished run over two sequence files and one other file in
\* which the first invocation failed on a missing binary and a later one ran
C1_Witness ==
    /\ prog = "align" /\ pc = "done"
    /\ Len(input_dir.names) = 3
    /\ \E k \in DOMAIN input_dir.names : ~HasSequenceSuffix(input_dir.names[k])
    /\ Len(calls) = 2
    /\ calls[1].outcome = "missing"
    /\ calls[2].outcome \in {"ok", "nonzero"}

\* C7: after a stage-1 run in which every invocation succeeded there is one
\* output file per matching input file (distinct inputs, distinct outputs).
C7_OneOutputPerInput ==
    (/\ prog = "align" /\ pc = "done"
     /\ \A k \in DOMAIN calls : calls[k].outcome = "ok")
        => Cardinality(out_files) =
               Cardinality({k \in DOMAIN input_dir.names :
                               HasSequenceSuffix(input_dir.names[k])})

(***************************************************************************)
(* The chain-record filter of run_paf2liftover (2_paf_liftover.py 25-30)   *)
(***************************************************************************)
ChainFields == 13

\* line 26, "for line in infile": the lines of a text file, each with its
\* newline; only the last line can lack one
RECURSIVE ReadLinesFrom(_, _)
ReadLinesFrom(content, cur) ==
    IF content = <<>> THEN (IF cur = <<>> THEN <<>> ELSE <<cur>>)
    ELSE IF Head(content) = NL
         THEN <<Append(cur, NL)>> \o ReadLinesFrom(Tail(content), <<>>)
         ELSE ReadLinesFrom(Tail(content), Append(cur, Head(content)))

ReadLines(content) == ReadLinesFrom(content, <<>>)

\* lines 27-29 without the comment test
KeepLine_mutant_no_comment_test(line) ==
    /\ Strip(line) # <<>>
    /\ Len(Split(line, TAB)) = ChainFields

\* lines 27-29: not a comment, not empty once stripped, 13 fields
KeepLine(line) ==
    /\ ~StartsWith(line, <<"#">>)
    /\ Strip(line) # <<>>
    /\ Len(Split(line, TAB)) = ChainFields

WriteLine_mutant_stripped(line) == Strip(line) \o <<NL>>

\* line 30, outfile.write(line): what a retained line adds to the chain file
WriteLine(line) == line

\* lines 25-30: the content written to chain_file for the lines read
RECURSIVE WriteKept(_)
WriteKept(lines) ==
    IF lines = <<>> THEN <<>>
    ELSE (IF KeepLine(Head(lines)) THEN WriteLine(Head(lines)) ELSE <<>>)
             \o WriteKept(Tail(lines))

FilterChain(content) == WriteKept(ReadLines(content))

\* Converter output, line by line
RECURSIVE Join(_, _)
Join(fields, sep) ==
    IF fields = <<>> THEN <<>>
    ELSE IF Len(fields) = 1 THEN fields[1]
    ELSE fields[1] \o <<sep>> \o Join(Tail(fields), sep)

Filled(n, f) == [k \in 1..n |-> f]

TmpLineBodies ==
    {Join(Filled(n, f), TAB) :
        n \in {ChainFields - 1, ChainFields, ChainFields + 1},
        f \in {<<>>, <<"a">>, <<" ">>}}
    \cup { <<"#">> \o Join(Filled(ChainFields, <<"a">>), TAB),
           Join(<<<<>>>> \o Filled(ChainFields - 1, <<"a">>), TAB),
           Join(Filled(ChainFields - 1, <<"a">>) \o <<<<>>>>, TAB),
           <<>>, <<"#">>, <<"a">> }

RECURSIVE Concat(_)
Concat(ls) == IF ls = <<>> THEN <<>> ELSE Head(ls) \o Concat(Tail(ls))

\* Files of at most MaxLines lines; the last line may lack its newline
TmpFiles ==
    LET terminated == {b \o <<NL>> : b \in TmpLineBodies}
        whole == UNION {[1..n -> terminated] : n \in 0..MaxLines}
    IN {Concat(ls) : ls \in whole}
       \cup {Concat(ls) \o b : ls \in {w \in whole : Len(w) < MaxLines},
                               b \in TmpLineBodies \ {<<>>}}

InitFilter ==
    /\ prog = "filter"
    /\ pc = "start"
    /\ infile \in TmpFiles
    /\ outfile = <<>>
    /\ refiltered = <<>>
    /\ input_dir = NoDir
    /\ paf_dir = NoDir
    /\ i = 1
    /\ calls = <<>>
    /\ out_files = {}
    /\ tsv = NoTable
    /\ hg38_bed = NoBed
    /\ chain = <<>>
    /\ unmapped = <<>>
    /\ events = <<>>

FilterUnused == <<prog, input_dir, paf_dir, i, calls, out_files, tsv, hg38_bed,
                  chain, unmapped, events>>

\* lines 25-30 applied to the converter's temporary output
filter_tmp ==
    /\ prog = "filter" /\ pc = "start"
    /\ outfile' = FilterChain(infile)
    /\ pc' = "filtered"
    /\ UNCHANGED <<infile, refiltered, FilterUnused>>

\* lines 25-30 applied to the chain file they produced
filter_again ==
    /\ prog = "filter" /\ pc = "filtered"
    /\ refiltered' = FilterChain(outfile)
    /\ pc' = "refiltered"
    /\ UNCHANGED <<infile, outfile, FilterUnused>>

NextFilter == filter_tmp \/ filter_again

SpecFilter == InitFilter /\ [][NextFilter]_vars

\* The claim's own reading of a line: fields counted by the tabs in it
TabCount(line) == Cardinality({k \in DOMAIN line : line[k] = TAB})
IsComment(line) == line # <<>> /\ line[1] = "#"
IsBlank(line) == \A k \in DOMAIN line : line[k] \in Whitespace
Occurrences(lines, l) == Cardinality({k \in DOMAIN lines : lines[k] = l})

NeverWritten ==
    \A l \in Range(ReadLines(infile)) :
        (TabCount(l) = 11 \/ IsComment(l) \/ IsBlank(l))
            => Occurrences(ReadLines(outfile), l) = 0

\* C2 (as amended): the filter never writes a line with 12 fields, a line
\* starting with '#' or a blank line, and writes every line that has exactly 13
\* fields, no '#' prefix and some non-whitespace character, as often as it
\* occurs in the temporary file.
C2_FilterKeepsExactlyChainRecords ==
    (prog = "filter" /\ pc = "filtered") =>
        /\ NeverWritten
        /\ \A l \in Range(ReadLines(infile)) :
              (TabCount(l) = 12 /\ ~IsComment(l) /\ ~IsBlank(l))
                  => Occurrences(ReadLines(outfile), l)
                         = Occurrences(ReadLines(infile), l)

\* C2 witness: a filtered file that held a 12-field line, which was dropped,
\* and a 13-field record, which was written
C2_Witness ==
    /\ prog = "filter" /\ pc = "filtered"
    /\ \E l \in Range(ReadLines(infile)) : TabCount(l) = 11 /\ ~IsBlank(l)
    /\ \E l \in Range(ReadLines(infile)) :
          /\ TabCount(l) = 12 /\ ~IsComment(l) /\ ~IsBlank(l)
          /\ l \in Range(ReadLines(outfile))

\* C2 as stated: every 13-field line without '#' prefix is written, a line of
\* 12 tabs included.
C2_Original_Every13FieldLineWritten ==
    (prog = "filter" /\ pc = "filtered") =>
        /\ NeverWritten
        /\ \A l \in Range(ReadLines(infile)) :
              (TabCount(l) = 12 /\ ~IsComment(l))
                  => Occurrences(ReadLines(outfile), l)
                         = Occurrences(ReadLines(infile), l)

\* C9: the filter is idempotent: filtering the chain file it wrote gives the
\* same lines in the same order, unmodified.
C9_FilterIdempotent ==
    (prog = "filter" /\ pc = "refiltered") =>
        ReadLines(refiltered) = ReadLines(outfile)

\* C9 witness: a refiltered file of which the first pass dropped a line and
\* kept a line
C9_Witness ==
    /\ prog = "filter" /\ pc = "refiltered"
    /\ outfile # <<>>
    /\ Len(ReadLines(outfile)) < Len(ReadLines(infile))

(***************************************************************************)
(* create_hg38_bed (2_paf_liftover.py 73-92)                               *)
(* The loci table is a header (column names) and rows of cell texts.       *)
(* pd.read_csv gives each column one dtype: int64 when every cell is an    *)
(* integer, float64 when the cells are integers and empty cells (an empty  *)
(* cell is NaN), object (the texts as read, NaN for an empty cell)         *)
(* otherwise.                                                              *)
(***************************************************************************)
Digits == <<"0", "1", "2", "3", "4", "5", "6", "7", "8", "9">>

DigitValue(c) == (CHOOSE d \in 1..10 : Digits[d] = c) - 1

IsIntText(t) == t # <<>> /\ \A k \in DOMAIN t : t[k] \in Range(Digits)

RECURSIVE ParseInt(_)
ParseInt(t) ==
    IF t = <<>> THEN 0
    ELSE 10 * ParseInt(SubSeq(t, 1, Len(t) - 1)) + DigitValue(t[Len(t)])

RECURSIVE IntToText(_)
IntToText(n) ==
    IF n < 10 THEN <<Digits[n + 1]>>
    ELSE IntToText(n \div 10) \o <<Digits[(n % 10) + 1]>>

ColumnIndex(header, name) == CHOOSE k \in DOMAIN header : header[k] = name

Column(table, name) ==
    [r \in DOMAIN table.rows |-> table.rows[r][ColumnIndex(table.header, name)]]

\* line 81: the dtype read_csv infers for a column
ColumnDtype(cells) ==
    IF \A r \in DOMAIN cells : IsIntText(cells[r]) THEN "int64"
    ELSE IF \A r \in DOMAIN cells : IsIntText(cells[r]) \/ cells[r] = <<>>
         THEN "float64"
         ELSE "object"

\* line 83, astype(str): the text of a value of a column of that dtype
AsStr(dtype, cell) ==
    IF cell = <<>> THEN <<"n", "a", "n">>
    ELSE CASE dtype = "int64" -> IntToText(ParseInt(cell))
           [] dtype = "float64" -> IntToText(ParseInt(cell)) \o <<".", "0">>
           [] dtype = "object" -> cell

\* line 84, to_csv: the text written for a value of a column of that dtype
\* (NaN is written as the empty text)
CsvText(dtype, cell) ==
    IF cell = <<>> THEN <<>>
    ELSE CASE dtype = "int64" -> IntToText(ParseInt(cell))
           [] dtype = "float64" -> IntToText(ParseInt(cell)) \o <<".", "0">>
           [] dtype = "object" -> cell

RequiredColumns == {"Chromosome", "Start", "End"}

\* lines 82-84: the lines to_csv writes, one per row, without header
BedLines(table) ==
    LET chrom == Column(table, "Chromosome")
        start == Column(table, "Start")
        end == Column(table, "End")
    IN [r \in DOMAIN table.rows |->
           <<"c", "h", "r">> \o AsStr(ColumnDtype(chrom), chrom[r])
               \o <<TAB>> \o CsvText(ColumnDtype(start), start[r])
               \o <<TAB>> \o CsvText(ColumnDtype(end), end[r])
               \o <<NL>>]

\* lines 80-92: the exception raised inside the try block, "none" when the
\* BED file is written
create_hg38_bed_raises(table) ==
    IF ~table.exists THEN "FileNotFoundError"
    ELSE IF ~(RequiredColumns \subseteq Range(table.header)) THEN "KeyError"
    ELSE "none"

\* lines 80-92: the file after the call and the value returned (TRUE for
\* output_bed, FALSE for None)
create_hg38_bed(table, bed) ==
    IF create_hg38_bed_raises(table) = "none"
    THEN [file |-> [exists |-> TRUE, lines |-> BedLines(table),
                    created |-> bed.created + 1],
          ret |-> TRUE]
    ELSE [file |-> bed, ret |-> FALSE]

Headers ==
    { <<"Chromosome", "Start", "End">>,
      <<"Name", "End", "Start", "Chromosome">>,
      <<"Chromosome", "Start">>,
      <<"Name", "Start", "End">> }

\* Cell texts per column; an End cell may be empty
CellTexts(column) ==
    CASE column = "Chromosome" -> {<<"1">>, <<"X">>}
      [] column = "Start" -> {<<"1", "0", "0", "0">>, <<"0">>}
      [] column = "End" -> {<<"2", "0", "0", "0">>, <<"5">>, <<>>}
      [] column = "Name" -> {<<"H", "1", "9">>}

RowsOf(header) ==
    {row \in [DOMAIN header -> UNION {CellTexts(c) : c \in Range(header)}] :
        \A k \in DOMAIN header : row[k] \in CellTexts(header[k])}

\* Tables of at most MaxRows rows under each header
Tables ==
    UNION {{[exists |-> TRUE, header |-> h, rows |-> rows] :
               rows \in UNION {[1..n -> RowsOf(h)] : n \in 0..MaxRows}} :
           h \in Headers}

InitBed ==
    /\ prog = "bed"
    /\ pc = "start"
    /\ tsv \in Tables \cup {NoTable}
    /\ hg38_bed = NoBed
    /\ input_dir = NoDir
    /\ paf_dir = NoDir
    /\ i = 1
    /\ calls = <<>>
    /\ out_files = {}
    /\ chain = <<>>
    /\ unmapped = <<>>
    /\ events = <<>>
    /\ infile = <<>>
    /\ outfile = <<>>
    /\ refiltered = <<>>

BedUnused == <<prog, input_dir, paf_dir, i, calls, out_files, chain, unmapped,
               events, infile, outfile, refiltered>>

\* lines 73-92, called once
create_bed ==
    /\ prog = "bed" /\ pc = "start"
    /\ hg38_bed' = create_hg38_bed(tsv, hg38_bed).file
    /\ pc' = IF create_hg38_bed(tsv, hg38_bed).ret THEN "returned" ELSE "returned_none"
    /\ UNCHANGED <<tsv, BedUnused>>

NextBed == create_bed

SpecBed == InitBed /\ [][NextBed]_vars

\* The line the claim expects for a row: 'chr' + Chromosome, Start, End as
\* they stand in the table, joined by tabs
ExpectedBedLine(table, r) ==
    <<"c", "h", "r">> \o Column(table, "Chromosome")[r]
        \o <<TAB>> \o Column(table, "Start")[r]
        \o <<TAB>> \o Column(table, "End")[r] \o <<NL>>

\* C8: for every table with the three columns, create_hg38_bed writes one
\* line per row, in row order, equal to 'chr' + Chromosome, Start, End joined
\* by tabs; without the file or one of the columns it returns None and writes
\* nothing.
C8_BedLinesAreTableRows ==
    (prog = "bed" /\ pc \in {"returned", "returned_none"}) =>
        IF tsv.exists /\ RequiredColumns \subseteq Range(tsv.header)
        THEN /\ pc = "returned"
             /\ hg38_bed.exists
             /\ hg38_bed.lines = [r \in DOMAIN tsv.rows |-> ExpectedBedLine(tsv, r)]
        ELSE pc = "returned_none" /\ ~hg38_bed.exists

(***************************************************************************)
(* Stage 2: 2_paf_liftover.py                                              *)
(***************************************************************************)
PafSuffix == <<".", "p", "a", "f">>

PafDirNames ==
    { <<"a">> \o PafSuffix,
      <<"b">> \o PafSuffix,
      <<"a">> \o PafSuffix \o PafSuffix,
      <<"a", ".", "t", "x", "t">> }

\* line 97
IsPaf(filename) == EndsWith(filename, PafSuffix)

\* line 98: filename.replace(".paf", "")
assembly_name(filename) == Replace(filename, PafSuffix, <<>>)

Assemblies == {assembly_name(n) : n \in {m \in PafDirNames : IsPaf(m)}}

\* What the converter did: exited 0 and wrote chain_file + ".tmp", exited 0
\* without writing it, exited non-zero, or is not on the PATH
ConverterOutcomes == {"ok", "ok_no_output", "nonzero", "missing"}

ConverterFailed(outcome) == outcome \in {"nonzero", "missing"}

\* Converter outputs used in whole runs: one record kept and one line dropped,
\* and nothing kept
RunTmpFiles ==
    { Join(Filled(ChainFields, <<"a">>), TAB) \o <<NL>>
          \o Join(Filled(ChainFields - 1, <<"a">>), TAB) \o <<NL>>,
      <<"#", NL>> }

\* A chain file left at chain_file by an earlier run
StaleChain ==
    [exists |-> TRUE, lines |-> Join(Filled(ChainFields, <<"s">>), TAB) \o <<NL>>]

\* lines 13-32: the exception raised inside the try block of run_paf2liftover:
\* by subprocess.run (line 22) or by open(chain_file + ".tmp") (line 25)
run_paf2liftover_raises(outcome) ==
    CASE outcome = "ok" -> "none"
      [] outcome = "ok_no_output" -> "FileNotFoundError"
      [] outcome = "nonzero" -> "CalledProcessError"
      [] outcome = "missing" -> "FileNotFoundError"

\* lines 35-41: the except clauses of run_paf2liftover
run_paf2liftover_caught == {"CalledProcessError", "FileNotFoundError"}

\* lines 13-41: the file at chain_file after the call; it is opened for writing
\* only once the converter has succeeded and its output has been opened
run_paf2liftover(outcome, tmp, chain_file) ==
    IF run_paf2liftover_raises(outcome) = "none"
    THEN [exists |-> TRUE, lines |-> FilterChain(tmp)]
    ELSE chain_file

\* line 108 with the test replaced by True
chain_file_exists_mutant_always(chain_file) == TRUE

\* line 108: os.path.exists(chain_file)
chain_file_exists(chain_file) == chain_file.exists

\* States of the unmapped-output file
UnmappedStates ==
    { [exists |-> FALSE, size |-> 0],
      [exists |-> TRUE, size |-> 0],
      [exists |-> TRUE, size |-> 1] }

\* What liftOver can leave at unmapped_bed: any state when it ran, the file as
\* it was when the binary is missing
run_liftover_unmapped(outcome, before) ==
    IF outcome = "missing" THEN {before} ELSE UnmappedStates

\* lines 63-66 with the size test dropped
run_liftover_report_mutant_exists_only(outcome, unmapped_bed) ==
    IF subprocess_run(outcome) = "none"
    THEN (IF unmapped_bed.exists THEN "unmapped_saved" ELSE "none_unmapped")
    ELSE "no_report"

\* lines 61-71: what run_liftover prints about unmapped intervals; after an
\* exception only the error is printed
run_liftover_report(outcome, unmapped_bed) ==
    IF subprocess_run(outcome) = "none"
    THEN (IF unmapped_bed.exists /\ unmapped_bed.size > 0
          THEN "unmapped_saved" ELSE "none_unmapped")
    ELSE "no_report"

\* lines 67-71: the except clauses of run_liftover
run_liftover_caught == {"CalledProcessError", "FileNotFoundError"}

\* Loci tables used in whole runs: no file, no End column, one valid row
RunTables ==
    { NoTable,
      [exists |-> TRUE, header |-> <<"Chromosome", "Start">>,
       rows |-> << <<<<"1">>, <<"1", "0", "0", "0">>>> >>],
      [exists |-> TRUE, header |-> <<"Chromosome", "Start", "End">>,
       rows |-> << <<<<"1">>, <<"1", "0", "0", "0">>, <<"2", "0", "0", "0">>>> >>] }

InitLift ==
    /\ prog = "lift"
    /\ pc = "start"
    /\ paf_dir \in {NoDir} \cup
           {[exists |-> TRUE, names |-> l] : l \in Listings(PafDirNames, MaxPafFiles)}
    /\ tsv \in RunTables
    /\ hg38_bed = NoBed
    /\ chain \in {[a \in Assemblies |-> NoFile], [a \in Assemblies |-> StaleChain]}
    /\ unmapped \in {[a \in Assemblies |-> u] : u \in {[exists |-> FALSE, size |-> 0],
                                                       [exists |-> TRUE, size |-> 1]}}
    /\ i = 1
    /\ events = <<>>
    /\ input_dir = NoDir
    /\ calls = <<>>
    /\ out_files = {}
    /\ infile = <<>>
    /\ outfile = <<>>
    /\ refiltered = <<>>

LiftUnused == <<prog, input_dir, calls, out_files, infile, outfile, refiltered>>

Event(step, at, outcome, chain_exists, unmapped_after, report) ==
    [step |-> step, at |-> at, outcome |-> outcome, chain_exists |-> chain_exists,
     unmapped_after |-> unmapped_after, report |-> report]

\* lines 122-129: makedirs, create_hg38_bed, return when it gave None
main_create_bed ==
    /\ prog = "lift" /\ pc = "start"
    /\ hg38_bed' = create_hg38_bed(tsv, hg38_bed).file
    /\ pc' = IF create_hg38_bed(tsv, hg38_bed).ret THEN "listdir" ELSE "returned"
    /\ UNCHANGED <<paf_dir, tsv, chain, unmapped, i, events, LiftUnused>>

\* lines 132, 96: os.listdir(paf_dir) raises FileNotFoundError for an absent
\* directory; neither process_paf_directory nor main has a try block around it
process_paf_directory_enter ==
    /\ prog = "lift" /\ pc = "listdir"
    /\ pc' = IF paf_dir.exists THEN "loop" ELSE "crashed"
    /\ UNCHANGED <<paf_dir, tsv, hg38_bed, chain, unmapped, i, events, LiftUnused>>

\* lines 96-97: a name without the .paf suffix
process_paf_directory_skip ==
    /\ prog = "lift" /\ pc = "loop"
    /\ i <= Len(paf_dir.names)
    /\ ~IsPaf(paf_dir.names[i])
    /\ i' = i + 1
    /\ UNCHANGED <<pc, paf_dir, tsv, hg38_bed, chain, unmapped, events, LiftUnused>>

\* lines 97-105: run_paf2liftover for a .paf file
process_paf_directory_convert ==
    /\ prog = "lift" /\ pc = "loop"
    /\ i <= Len(paf_dir.names)
    /\ IsPaf(paf_dir.names[i])
    /\ \E outcome \in ConverterOutcomes :
       \E tmp \in (IF outcome = "ok" THEN RunTmpFiles ELSE {<<>>}) :
          LET asm == assembly_name(paf_dir.names[i])
              after == run_paf2liftover(outcome, tmp, chain[asm])
          IN /\ chain' = [chain EXCEPT ![asm] = after]
             /\ events' = Append(events,
                    Event("convert", i, outcome, after.exists, unmapped[asm], "no_report"))
             /\ pc' = IF Propagates(run_paf2liftover_raises(outcome),
                                    run_paf2liftover_caught)
                      THEN "crashed" ELSE "converted"
    /\ UNCHANGED <<paf_dir, tsv, hg38_bed, unmapped, i, LiftUnused>>

\* lines 108-109: the chain file exists, run_liftover
process_paf_directory_liftover ==
    /\ prog = "lift" /\ pc = "converted"
    /\ chain_file_exists(chain[assembly_name(paf_dir.names[i])])
    /\ \E outcome \in ProcessOutcomes :
       LET asm == assembly_name(paf_dir.names[i]) IN
       \E after \in run_liftover_unmapped(outcome, unmapped[asm]) :
             /\ unmapped' = [unmapped EXCEPT ![asm] = after]
             /\ events' = Append(events,
                    Event("liftover", i, outcome, chain[asm].exists, after,
                          run_liftover_report(outcome, after)))
             /\ IF Propagates(subprocess_run(outcome), run_liftover_caught)
                THEN pc' = "crashed" /\ i' = i
                ELSE pc' = "loop" /\ i' = i + 1
    /\ UNCHANGED <<paf_dir, tsv, hg38_bed, chain, LiftUnused>>

\* lines 110-111: no chain file, liftOver is skipped
process_paf_directory_no_chain ==
    /\ prog = "lift" /\ pc = "converted"
    /\ ~chain_file_exists(chain[assembly_name(paf_dir.names[i])])
    /\ events' = Append(events,
           Event("skip", i, "none", FALSE,
                 unmapped[assembly_name(paf_dir.names[i])], "no_report"))
    /\ pc' = "loop"
    /\ i' = i + 1
    /\ UNCHANGED <<paf_dir, tsv, hg38_bed, chain, unmapped, LiftUnused>>

\* line 96: the listing is exhausted
process_paf_directory_return ==
    /\ prog = "lift" /\ pc = "loop"
    /\ i > Len(paf_dir.names)
    /\ pc' = "cleanup"
    /\ UNCHANGED <<paf_dir, tsv, hg38_bed, chain, unmapped, i, events, LiftUnused>>

\* lines 135-136: remove the hg38 BED file
main_cleanup ==
    /\ prog = "lift" /\ pc = "cleanup"
    /\ hg38_bed' = IF hg38_bed.exists
                   THEN [hg38_bed EXCEPT !.exists = FALSE, !.lines = <<>>]
                   ELSE hg38_bed
    /\ pc' = "done"
    /\ UNCHANGED <<paf_dir, tsv, chain, unmapped, i, events, LiftUnused>>

NextLift ==
    \/ main_create_bed
    \/ process_paf_directory_enter
    \/ process_paf_directory_skip
    \/ process_paf_directory_convert
    \/ process_paf_directory_liftover
    \/ process_paf_directory_no_chain
    \/ process_paf_directory_return
    \/ main_cleanup

SpecLift == InitLift /\ [][NextLift]_vars

EventsAt(k) == SelectSeq(events, LAMBDA e : e.at = k)

Steps(es) == [n \in DOMAIN es |-> es[n].step]

ItemPassed(k) == k < i \/ pc \in {"cleanup", "done"}

\* C3: when run_paf2liftover has returned after the converter exited non-zero
\* or was missing, no chain file exists at chain_file, whatever was on disk
\* before the run; so liftOver is skipped for that item.
C3_NoChainFileAfterFailure ==
    (prog = "lift" /\ pc = "converted"
        /\ ConverterFailed(events[Len(events)].outcome))
        => ~chain[assembly_name(paf_dir.names[i])].exists

\* C4 (as amended): for every run_liftover call in which liftOver exited 0,
\* exactly one report is issued: unmapped intervals exist when the unmapped
\* file exists with non-zero size at the end of the call, none unmapped when it
\* is absent or empty; when liftOver exited non-zero or is missing, neither
\* report is issued, whatever the state of the unmapped file.
C4_UnmappedReportOnSuccess ==
    prog = "lift" =>
        \A n \in DOMAIN events :
            events[n].step = "liftover" =>
                IF events[n].outcome = "ok"
                THEN events[n].report =
                        IF events[n].unmapped_after.exists
                              /\ events[n].unmapped_after.size > 0
                        THEN "unmapped_saved" ELSE "none_unmapped"
                ELSE events[n].report = "no_report"

\* C4 witness: a run with a successful liftOver call that left an empty
\* unmapped file and reported none unmapped, and a failed liftOver call that
\* left a non-empty unmapped file
C4_Witness ==
    /\ prog = "lift"
    /\ \E n \in DOMAIN events :
          /\ events[n].step = "liftover" /\ events[n].outcome = "ok"
          /\ events[n].unmapped_after = [exists |-> TRUE, size |-> 0]
          /\ events[n].report = "none_unmapped"
    /\ \E n \in DOMAIN events :
          /\ events[n].step = "liftover" /\ events[n].outcome = "nonzero"
          /\ events[n].unmapped_after = [exists |-> TRUE, size |-> 1]

\* C4 as stated: every run_liftover call, whatever liftOver's exit, issues
\* exactly the report that matches the unmapped file at the end of the call.
C4_Original_ReportOnEveryCall ==
    prog = "lift" =>
        \A n \in DOMAIN events :
            events[n].step = "liftover" =>
                events[n].report =
                    IF events[n].unmapped_after.exists
                          /\ events[n].unmapped_after.size > 0
                    THEN "unmapped_saved" ELSE "none_unmapped"

\* C5: in every stage-2 run that creates hg38_imprinted_loci.bed, the file is
\* created exactly once and does not exist when the run has ended.
C5_BedCreatedOnceAndRemoved ==
    (prog = "lift" /\ RunEnded /\ hg38_bed.created > 0)
        => hg38_bed.created = 1 /\ ~hg38_bed.exists

\* C6: no run is ended by an uncaught exception; in particular a stage-2 run
\* with an absent paf_dir ends without one.
C6_NoUncaughtException ==
    prog \in {"align", "lift"} => pc # "crashed"

\* C10: in process_paf_directory every .paf file passed has exactly one
\* converter step, followed by at most one liftOver step, which is there
\* exactly when the chain file existed once the converter step had returned;
\* other files have no step; the steps of a file all precede the steps of the
\* next file; and a run over an existing paf_dir passes every file, whatever
\* failed.
C10_StepsInOrderPerFile ==
    (prog = "lift" /\ paf_dir.exists) =>
        /\ \A k \in DOMAIN paf_dir.names :
              ItemPassed(k) =>
                 LET es == EventsAt(k) IN
                 IF IsPaf(paf_dir.names[k])
                 THEN /\ Len(es) = 2
                      /\ es[1].step = "convert"
                      /\ es[2].step = IF es[1].chain_exists THEN "liftover" ELSE "skip"
                 ELSE es = <<>>
        /\ \A m, n \in DOMAIN events :
              m < n => /\ events[m].at <= events[n].at
                       /\ events[m].at = events[n].at => events[m].step = "convert"
        /\ pc = "converted" => Steps(EventsAt(i)) = <<"convert">>
        /\ pc # "crashed"
        /\ pc = "done" => i = Len(paf_dir.names) + 1

\* C10 witness: a finished run over two .paf files in which the converter
\* failed on the first file, liftOver was skipped for it, and the second file
\* was converted and lifted over
C10_Witness ==
    /\ prog = "lift" /\ pc = "done"
    /\ Len(events) = 4
    /\ events[1].step = "convert" /\ ConverterFailed(events[1].outcome)
    /\ events[2].step = "skip"
    /\ events[3].step = "convert" /\ events[3].outcome = "ok" /\ events[3].at = 2
    /\ events[4].step = "liftover"

\* Second half of C8, in whole runs: when create_hg38_bed returned None, main
\* starts neither the converter nor liftOver.
NoStepWithoutBed ==
    (prog = "lift" /\ create_hg38_bed_raises(tsv) # "none") => events = <<>>

====
